---- MODULE Spec2Model ----
(***************************************************************************)
(* Model of the locator-map renderer (src/snapshot.py, src/main.py).       *)
(*                                                                         *)
(* Numbers.  Python floats are modelled exactly where the code only adds,  *)
(* multiplies, divides and compares them: coordinates are integers (whole  *)
(* degrees, or a stated fixed-point unit) and running means are reduced    *)
(* fractions <<n, d>>.  math.sin / cos / asin / sqrt are computed in fixed *)
(* point with SC units per 1.0 and per radian.                             *)
(***************************************************************************)
EXTENDS Integers, Sequences, FiniteSets, TLC

VARIABLES
    pc,              \* position of the running function / of main
    args,            \* the four numbers handed to Region(...)
    region,          \* a Region value (or NoRegion)
    aspect,          \* result of geographic_aspect (or NoValue)
    points,          \* list of (lat, lon) pairs
    min_distance_m,  \* cluster_points' merge radius, metres
    clusters,        \* cluster_points' list of (clat, clon, count)
    i,               \* number of input items consumed by the running loop
    marker,          \* (x_fig, y_fig): the star in figure fractions
    theme,           \* the theme's inset_size and inset_margin
    inset_bbox,      \* ax_inset.get_position(): x0, y0, x1, y1
    rect,            \* the zoom rectangle's corners in figure fractions
    pos,             \* side chosen for the main title
    file,            \* the points file: NoFile or its lines
    error,           \* the exception raised (or NoError)
    argv,            \* main's parsed command line
    step,            \* number of main's steps completed, plus one
    written,         \* number of times the output file was written
    runs,            \* how often each step of main was started
    raised,          \* the step whose exception ended main ("" if none)
    exit_code        \* the process's exit status (NotExited while running)

regionVars  == <<args, region, aspect>>
clusterVars == <<points, min_distance_m, clusters, i>>
insetVars   == <<marker, theme, inset_bbox>>
sideVars    == <<rect, pos>>
csvVars     == <<file, error>>
mainVars    == <<argv, step, written, runs, raised, exit_code>>

vars == <<pc, regionVars, clusterVars, insetVars, sideVars, csvVars, mainVars>>

NoRegion == "no_region"
NoValue  == "no_value"
NoError  == [type |-> "none", cites |-> <<>>]
NoFile   == [exists |-> FALSE, lines |-> <<>>]       \* Path.is_file() is false

\* values of the variables a specification does not use
IdleRegion  == args = <<>> /\ region = NoRegion /\ aspect = NoValue
IdleCluster == points = <<>> /\ min_distance_m = 0 /\ clusters = <<>> /\ i = 0
IdleInset   == marker = <<>> /\ theme = <<>> /\ inset_bbox = <<>>
IdleSide    == rect = <<>> /\ pos = NoValue
IdleCsv     == file = NoFile /\ error = NoError
NotExited   == 0 - 1
IdleMain    ==
    /\ argv = <<>> /\ step = 0 /\ written = 0 /\ runs = <<>>
    /\ raised = "" /\ exit_code = NotExited

-----------------------------------------------------------------------------
(* Bounds of the model                                                     *)

MaxCoord == 5        \* Region arguments range over -1..MaxCoord and 60
MaxPoints == 3       \* longest list of points handed to cluster_points
MaxLatStep == 2      \* clustered points lie on latitudes 52 .. 52 + MaxLatStep,
                     \* longitudes -8 and -7, plus one far point (10, 10)

MaxFigStep == 7      \* the star's figure fraction is -0.20 + 0.20 k, k <= MaxFigStep
MaxSizeStep == 4     \* theme inset_size is 0.30 k, k <= MaxSizeStep
MaxMarginStep == 3   \* theme inset_margin is 0.02 or 0.10 k, k <= MaxMarginStep
MaxSideStep == 4     \* side detection: corners at 0.005 k, k <= MaxSideStep
MaxInsetStep == 2    \* side detection: panel size 0.005 k, 1 <= k <= MaxInsetStep

MaxAutoPoints == 3   \* longest list of points handed to _auto_region_from_points

MaxLines == 2        \* longest points file, in lines

-----------------------------------------------------------------------------
(* Arithmetic helpers                                                      *)

SC == 10 * 10 * 10                     \* fixed-point units per 1.0
Pi == (355 * SC) \div 113              \* 3.141 in fixed point
HalfPi == Pi \div 2

Abs(x) == IF x < 0 THEN -x ELSE x
Min2(a, b) == IF a <= b THEN a ELSE b
Max2(a, b) == IF a >= b THEN a ELSE b

\* a / b rounded to the nearest integer, symmetric in the sign of a (b > 0)
DivRound(a, b) ==
    IF a >= 0 THEN (2 * a + b) \div (2 * b) ELSE -((2 * (-a) + b) \div (2 * b))

RECURSIVE Gcd(_, _)
Gcd(a, b) == IF b = 0 THEN a ELSE Gcd(b, a % b)

\* the float n / d as a reduced fraction with positive denominator (d # 0)
Frac(n, d) ==
    LET g == Gcd(Abs(n), Abs(d))
        s == IF d < 0 THEN -1 ELSE 1
    IN  <<(s * n) \div g, (s * d) \div g>>

FracOfInt(k) == <<k, 1>>
FracAdd(p, q) == Frac(p[1] * q[2] + q[1] * p[2], p[2] * q[2])
FracMulInt(p, k) == Frac(p[1] * k, p[2])
FracDivInt(p, k) == Frac(p[1], p[2] * k)

\* math.radians: degrees (a fraction) to fixed-point radians
radians(q) == DivRound(q[1] * Pi, q[2] * 180)

\* Taylor polynomial of sin on [0, pi/2], fixed point in and out
SinSeries(x) ==
    LET x2 == (x * x) \div SC
        t3 == (x * x2) \div (6 * SC)
        t5 == (t3 * x2) \div (20 * SC)
        t7 == (t5 * x2) \div (42 * SC)
    IN  Min2(SC, x - t3 + t5 - t7)

RECURSIVE SinPos(_)
SinPos(x) ==
    IF x <= HalfPi THEN SinSeries(x)
    ELSE IF x <= Pi THEN SinSeries(Pi - x)
    ELSE -SinPos(x - Pi)

\* math.sin, math.cos
sin(x) == IF x < 0 THEN -SinPos(-x) ELSE SinPos(x)
cos(x) == SinPos(HalfPi + Abs(x))

RECURSIVE IsqrtSearch(_, _, _)
IsqrtSearch(n, lo, hi) ==
    IF lo >= hi THEN lo
    ELSE LET mid == (lo + hi + 1) \div 2
         IN  IF mid * mid <= n THEN IsqrtSearch(n, mid, hi)
             ELSE IsqrtSearch(n, lo, mid - 1)

\* math.sqrt of a value with SC * SC units per 1.0; the result has SC per 1.0
sqrt(a) == IsqrtSearch(a, 0, 2 * SC)

RECURSIVE AsinSearch(_, _, _)
AsinSearch(y, lo, hi) ==
    IF lo >= hi THEN lo
    ELSE LET mid == (lo + hi + 1) \div 2
         IN  IF SinSeries(mid) <= y THEN AsinSearch(y, mid, hi)
             ELSE AsinSearch(y, lo, mid - 1)

\* math.asin on [0, 1]: the largest angle in [0, pi/2] whose sine is <= y
asin(y) == AsinSearch(y, 0, HalfPi)

-----------------------------------------------------------------------------
(* Region (snapshot.py 18-31)                                              *)

\* the dataclass constructor: stores its four arguments as given
Region(minimum_longitude, maximum_longitude, minimum_latitude, maximum_latitude) ==
    [minimum_longitude |-> minimum_longitude,
     maximum_longitude |-> maximum_longitude,
     minimum_latitude  |-> minimum_latitude,
     maximum_latitude  |-> maximum_latitude]

\* Region.normalized drops the ordering of one axis
normalized_lon_only(r) ==
    Region(Min2(r.minimum_longitude, r.maximum_longitude),
           Max2(r.minimum_longitude, r.maximum_longitude),
           r.minimum_latitude, r.maximum_latitude)

\* Region.normalized: sorted() on each axis
normalized(r) ==
    Region(Min2(r.minimum_longitude, r.maximum_longitude),
           Max2(r.minimum_longitude, r.maximum_longitude),
           Min2(r.minimum_latitude, r.maximum_latitude),
           Max2(r.minimum_latitude, r.maximum_latitude))

as_extent(r) ==
    <<r.minimum_longitude, r.maximum_longitude, r.minimum_latitude, r.maximum_latitude>>

\* parse_region: Region(...).normalized() on the four parsed floats
parse_region(values) ==
    normalized(Region(values[1], values[2], values[3], values[4]))

\* geographic_aspect without the leading normalized()
geographic_aspect_raw(r) ==
    LET mean_latitude == Frac(r.minimum_latitude + r.maximum_latitude, 2)
        denominator == (r.maximum_longitude - r.minimum_longitude)
                          * cos(radians(mean_latitude))
    IN  IF denominator = 0 THEN FracOfInt(1)
        ELSE Frac((r.maximum_latitude - r.minimum_latitude) * SC, denominator)

\* geographic_aspect: height / width of the figure, a fraction
geographic_aspect(r0) ==
    LET r == normalized(r0)
        mean_latitude == Frac(r.minimum_latitude + r.maximum_latitude, 2)
        denominator == (r.maximum_longitude - r.minimum_longitude)
                          * cos(radians(mean_latitude))
    IN  IF denominator = 0 THEN FracOfInt(1)
        ELSE Frac((r.maximum_latitude - r.minimum_latitude) * SC, denominator)

-----------------------------------------------------------------------------
(* SpecRegion: Region construction, normalisation and geographic_aspect    *)

Coords == (-1 .. MaxCoord) \cup {60}

InitRegion ==
    /\ pc = "region_args"
    /\ args \in Coords \X Coords \X Coords \X Coords
    /\ region = NoRegion
    /\ aspect = NoValue
    /\ IdleCluster /\ IdleInset /\ IdleSide /\ IdleCsv /\ IdleMain

\* Region(a, b, c, d)
ConstructRegion ==
    /\ pc = "region_args"
    /\ region' = Region(args[1], args[2], args[3], args[4])
    /\ pc' = "constructed"
    /\ UNCHANGED <<args, aspect, clusterVars, insetVars, sideVars, csvVars, mainVars>>

\* parse_region(values)
ParseRegion ==
    /\ pc = "region_args"
    /\ region' = parse_region(args)
    /\ pc' = "parsed"
    /\ UNCHANGED <<args, aspect, clusterVars, insetVars, sideVars, csvVars, mainVars>>

\* region.normalized() on a constructed region
NormalizeRegion ==
    /\ pc = "constructed"
    /\ region' = normalized(region)
    /\ pc' = "normalized"
    /\ UNCHANGED <<args, aspect, clusterVars, insetVars, sideVars, csvVars, mainVars>>

\* geographic_aspect(region) on a region in any argument order
GeographicAspect ==
    /\ pc \in {"constructed", "parsed", "normalized"}
    /\ aspect' = geographic_aspect(region)
    /\ pc' = "aspect_done"
    /\ UNCHANGED <<args, region, clusterVars, insetVars, sideVars, csvVars, mainVars>>

NextRegion == ConstructRegion \/ ParseRegion \/ NormalizeRegion \/ GeographicAspect

SpecRegion == InitRegion /\ [][NextRegion]_vars

-----------------------------------------------------------------------------
(* Claims about Region and geographic_aspect (SpecRegion)                  *)

Ordered(r) ==
    /\ r.minimum_longitude <= r.maximum_longitude
    /\ r.minimum_latitude <= r.maximum_latitude

SameBounds(r) ==
    /\ {r.minimum_longitude, r.maximum_longitude} = {args[1], args[2]}
    /\ {r.minimum_latitude, r.maximum_latitude} = {args[3], args[4]}

\* C1 as stated: the region that Region(a, b, c, d) constructs has
\* minimum <= maximum on both axes whatever the order of the arguments.
C1_ConstructionOrdered ==
    pc = "constructed" => Ordered(region)

\* C1 amended: Region(a, b, c, d).normalized(), which is what parse_region
\* returns, has minimum <= maximum on both axes and keeps the two bounds of
\* each axis; the constructor alone stores the arguments in the order given.
C1_NormalizedOrdered ==
    /\ pc \in {"parsed", "normalized"} => Ordered(region) /\ SameBounds(region)
    /\ pc = "constructed" => as_extent(region) = args

\* Region(1, 0, 5, 3) normalised to longitude [0, 1], latitude [3, 5]
C1_Witness ==
    /\ pc = "parsed"
    /\ args = <<1, 0, 5, 3>>
    /\ region = Region(0, 1, 3, 5)

SwapLon(r) ==
    Region(r.maximum_longitude, r.minimum_longitude, r.minimum_latitude, r.maximum_latitude)

SwapLat(r) ==
    Region(r.minimum_longitude, r.maximum_longitude, r.maximum_latitude, r.minimum_latitude)

\* C10: geographic_aspect returns 1.0 for every region whose longitude span
\* is 0, and its result does not change when minimum and maximum are swapped
\* on either axis (or on both) before the call.
C10_AspectSwapInvariant ==
    pc = "aspect_done" =>
        /\ region.minimum_longitude = region.maximum_longitude => aspect = FracOfInt(1)
        /\ aspect = geographic_aspect(SwapLon(region))
        /\ aspect = geographic_aspect(SwapLat(region))
        /\ aspect = geographic_aspect(SwapLon(SwapLat(region)))

\* an aspect computed for a region passed with reversed longitude bounds
C10_Witness ==
    /\ pc = "aspect_done"
    /\ region.minimum_longitude > region.maximum_longitude
    /\ region.minimum_latitude # region.maximum_latitude
    /\ aspect # FracOfInt(1)
    /\ aspect[1] > 0

-----------------------------------------------------------------------------
(* haversine_m and cluster_points (snapshot.py 61-95)                      *)

r == 6371000

\* haversine_m: great-circle distance in metres between two locations given
\* as fractions of degrees
haversine_m(lat1, lon1, lat2, lon2) ==
    LET phi1 == radians(lat1)
        phi2 == radians(lat2)
        dphi == phi2 - phi1
        dlambda == radians(FracAdd(lon2, FracMulInt(lon1, -1)))
        s1 == sin(DivRound(dphi, 2))
        s2 == sin(DivRound(dlambda, 2))
        a == s1 * s1 + ((((cos(phi1) * cos(phi2)) \div SC) * (s2 * s2)) \div SC)
    IN  2 * (r \div SC) * asin(Min2(SC, sqrt(a)))

\* the largest value haversine_m can return (min(1.0, ...) caps asin at pi/2)
GreatestDistance == 2 * (r \div SC) * asin(SC)

\* a guard that lets a radius of exactly 0 into the merge loop
NoMergeStrict(d) == d < 0

\* line 78: the guard of the no-merge early return
NoMerge(d) == d <= 0

\* a scan that does not stop at the first hit
RECURSIVE last_match(_, _, _, _, _)
last_match(cl, idx, lat, lon, d) ==
    IF idx > Len(cl) THEN 0
    ELSE LET later == last_match(cl, idx + 1, lat, lon, d)
         IN  IF later # 0 THEN later
             ELSE IF haversine_m(FracOfInt(lat), FracOfInt(lon), cl[idx][1], cl[idx][2]) <= d
                  THEN idx ELSE 0

\* inner loop, lines 84-85 and 92: position of the first cluster, from idx on,
\* whose centroid is within d of (lat, lon); 0 when the scan finds none
RECURSIVE first_match(_, _, _, _, _)
first_match(cl, idx, lat, lon, d) ==
    IF idx > Len(cl) THEN 0
    ELSE IF haversine_m(FracOfInt(lat), FracOfInt(lon), cl[idx][1], cl[idx][2]) <= d
         THEN idx
         ELSE first_match(cl, idx + 1, lat, lon, d)

\* an update that averages the centroid with the point, ignoring the count
fold_unweighted(c, lat, lon) ==
    <<FracDivInt(FracAdd(c[1], FracOfInt(lat)), 2),
      FracDivInt(FracAdd(c[2], FracOfInt(lon)), 2),
      c[3] + 1>>

\* lines 87-90: the running-mean update of one cluster (clat, clon, count)
fold(c, lat, lon) ==
    LET count == c[3]
        new_count == count + 1
        new_lat == FracDivInt(FracAdd(FracMulInt(c[1], count), FracOfInt(lat)), new_count)
        new_lon == FracDivInt(FracAdd(FracMulInt(c[2], count), FracOfInt(lon)), new_count)
    IN  <<new_lat, new_lon, new_count>>

singleton(lat, lon) == <<FracOfInt(lat), FracOfInt(lon), 1>>

\* an iteration that puts a new cluster in front of the existing ones
assign_point_prepend(cl, lat, lon, d) ==
    LET idx == first_match(cl, 1, lat, lon, d)
    IN  IF idx # 0 THEN [cl EXCEPT ![idx] = fold(cl[idx], lat, lon)]
        ELSE <<singleton(lat, lon)>> \o cl

\* one iteration of the outer loop, lines 82-94
assign_point(cl, lat, lon, d) ==
    LET idx == first_match(cl, 1, lat, lon, d)
    IN  IF idx # 0 THEN [cl EXCEPT ![idx] = fold(cl[idx], lat, lon)]
        ELSE Append(cl, singleton(lat, lon))

PointGrid ==
    {<<52 + a, b - 8>> : a \in 0 .. MaxLatStep, b \in 0 .. 1} \cup {<<10, 10>>}

RECURSIVE SeqsUpTo(_, _)
SeqsUpTo(S, n) ==
    IF n = 0 THEN {<<>>}
    ELSE LET shorter == SeqsUpTo(S, n - 1)
         IN  shorter \cup {Append(q, x) : q \in {t \in shorter : Len(t) = n - 1}, x \in S}

MinDistances == {0 - 1, 0, 80 * SC, 150 * SC, GreatestDistance}

InitCluster ==
    /\ pc = "cluster_start"
    /\ points \in SeqsUpTo(PointGrid, MaxPoints)
    /\ min_distance_m \in MinDistances
    /\ clusters = <<>>
    /\ i = 0
    /\ IdleRegion /\ IdleInset /\ IdleSide /\ IdleCsv /\ IdleMain

\* lines 76-81: the early returns, or entry into the loop
ClusterEnter ==
    /\ pc = "cluster_start"
    /\ IF points = <<>>
         THEN clusters' = <<>> /\ i' = 0 /\ pc' = "cluster_done"
       ELSE IF NoMerge(min_distance_m)
         THEN /\ clusters' = [k \in 1 .. Len(points) |-> singleton(points[k][1], points[k][2])]
              /\ i' = Len(points)
              /\ pc' = "cluster_done"
       ELSE clusters' = <<>> /\ i' = 0 /\ pc' = "cluster_loop"
    /\ UNCHANGED <<points, min_distance_m, regionVars, insetVars, sideVars, csvVars, mainVars>>

\* lines 82-94: the next point is folded into a cluster or opens one
ClusterStep ==
    /\ pc = "cluster_loop"
    /\ i < Len(points)
    /\ clusters' = assign_point(clusters, points[i + 1][1], points[i + 1][2], min_distance_m)
    /\ i' = i + 1
    /\ UNCHANGED <<pc, points, min_distance_m, regionVars, insetVars, sideVars, csvVars, mainVars>>

\* line 95
ClusterReturn ==
    /\ pc = "cluster_loop"
    /\ i = Len(points)
    /\ pc' = "cluster_done"
    /\ UNCHANGED <<clusterVars, regionVars, insetVars, sideVars, csvVars, mainVars>>

NextCluster == ClusterEnter \/ ClusterStep \/ ClusterReturn

SpecCluster == InitCluster /\ [][NextCluster]_vars

-----------------------------------------------------------------------------
(* Claims about cluster_points (SpecCluster)                               *)

Dist(p, q) ==
    haversine_m(FracOfInt(p[1]), FracOfInt(p[2]), FracOfInt(q[1]), FracOfInt(q[2]))

Within(c, p, d) ==
    haversine_m(FracOfInt(p[1]), FracOfInt(p[2]), c[1], c[2]) <= d

\* the fraction new equals (old * count + x) / (count + 1)
IsRunningMean(new, old, count, x) ==
    new[1] * old[2] * (count + 1) = new[2] * (old[1] * count + x * old[2])

\* the fraction q equals total / n
IsMean(q, total, n) == q[1] * n = total * q[2]

RECURSIVE SumOf(_, _)
SumOf(ps, axis) ==
    IF ps = <<>> THEN 0 ELSE Head(ps)[axis] + SumOf(Tail(ps), axis)

GreedyStep ==
    (pc = "cluster_loop" /\ i < Len(points) /\ i' = i + 1) =>
        LET p == points[i + 1]
            hits == {k \in 1 .. Len(clusters) : Within(clusters[k], p, min_distance_m)}
        IN  IF hits # {}
            THEN LET j == CHOOSE k \in hits : \A h \in hits : k <= h
                 IN  /\ Len(clusters') = Len(clusters)
                     /\ \A k \in 1 .. Len(clusters) : k # j => clusters'[k] = clusters[k]
                     /\ clusters'[j][3] = clusters[j][3] + 1
                     /\ IsRunningMean(clusters'[j][1], clusters[j][1], clusters[j][3], p[1])
                     /\ IsRunningMean(clusters'[j][2], clusters[j][2], clusters[j][3], p[2])
            ELSE clusters' = Append(clusters, <<FracOfInt(p[1]), FracOfInt(p[2]), 1>>)

\* every other input point is more than twice min_distance_m away from
\* points k and k + 1
FarFromTheRest(k) ==
    \A m \in (1 .. Len(points)) \ {k, k + 1} :
        /\ Dist(points[m], points[k]) > 2 * min_distance_m
        /\ Dist(points[m], points[k + 1]) > 2 * min_distance_m

ClosePairsMerged ==
    (pc = "cluster_done" /\ min_distance_m > 0) =>
        \A k \in 1 .. Len(points) - 1 :
            (Dist(points[k], points[k + 1]) <= min_distance_m /\ FarFromTheRest(k)) =>
                \E c \in 1 .. Len(clusters) :
                    /\ clusters[c][3] = 2
                    /\ IsMean(clusters[c][1], points[k][1] + points[k + 1][1], 2)
                    /\ IsMean(clusters[c][2], points[k][2] + points[k + 1][2], 2)

\* C2: with min_distance_m > 0 each point, in input order, is folded into the
\* first cluster in creation order whose current centroid is within
\* min_distance_m of it (running-mean update, count + 1, no other cluster
\* changes), and is appended as a singleton of count 1 exactly when no
\* centroid is that close; hence two consecutive points within
\* min_distance_m of each other and far (more than twice min_distance_m) from
\* every other point end in one cluster of count 2.
C2_GreedyFirstMatch ==
    [][GreedyStep]_vars /\ []ClosePairsMerged

\* 52,-8 / 53,-8 / 10,10 with a 150 km radius: the first two merge
C2_Witness ==
    /\ pc = "cluster_done"
    /\ points = <<(<<52, -8>>), (<<53, -8>>), (<<10, 10>>)>>
    /\ min_distance_m = 150 * SC
    /\ clusters = <<(<<(<<105, 2>>), (<<-8, 1>>), 2>>), (<<(<<10, 1>>), (<<10, 1>>), 1>>)>>

\* C3: for a non-empty list and min_distance_m at least the greatest possible
\* distance, the result is exactly one cluster whose count is len(points) and
\* whose centroid is the arithmetic mean of the latitudes and longitudes.
C3_OneClusterAtMean ==
    (pc = "cluster_done" /\ points # <<>> /\ min_distance_m >= GreatestDistance) =>
        /\ Len(clusters) = 1
        /\ clusters[1][3] = Len(points)
        /\ IsMean(clusters[1][1], SumOf(points, 1), Len(points))
        /\ IsMean(clusters[1][2], SumOf(points, 2), Len(points))

\* three distinct points, one of them far away, collapsed into one cluster
C3_Witness ==
    /\ pc = "cluster_done"
    /\ min_distance_m >= GreatestDistance
    /\ Len(points) = 3
    /\ points[1] = <<52, -8>> /\ points[2] = <<10, 10>> /\ points[3] = <<53, -7>>
    /\ Len(clusters) = 1
    /\ clusters[1][1][2] = 3

\* C4: for min_distance_m <= 0 the result has one cluster per input point, in
\* input order, each with the point's own coordinates and count 1, coincident
\* points included.
C4_NoMergeAtZero ==
    (pc = "cluster_done" /\ min_distance_m <= 0) =>
        /\ Len(clusters) = Len(points)
        /\ \A k \in 1 .. Len(points) :
               clusters[k] = <<FracOfInt(points[k][1]), FracOfInt(points[k][2]), 1>>

\* two coincident points kept apart at min_distance_m = 0
C4_Witness ==
    /\ pc = "cluster_done"
    /\ min_distance_m = 0
    /\ Len(points) = 2
    /\ points[1] = points[2]
    /\ Len(clusters) = 2

RECURSIVE SumCounts(_)
SumCounts(cl) == IF cl = <<>> THEN 0 ELSE Head(cl)[3] + SumCounts(Tail(cl))

\* i points have been consumed: every count is at least 1 and the counts add
\* up to i, which is len(points) on return
CountsConserved ==
    pc \in {"cluster_loop", "cluster_done"} =>
        /\ \A k \in 1 .. Len(clusters) : clusters[k][3] >= 1
        /\ SumCounts(clusters) = i
        /\ i <= Len(points)
        /\ pc = "cluster_done" => SumCounts(clusters) = Len(points)

\* a step keeps every existing cluster at its index, adds at most one member
\* to it, and puts each cluster it opens at the end, opened by the point
\* being consumed
CreationOrderStep ==
    LET n == Len(clusters)
    IN  /\ Len(clusters') >= n
        /\ \A k \in 1 .. n :
               \/ clusters'[k] = clusters[k]
               \/ clusters'[k][3] = clusters[k][3] + 1
        /\ \A k \in n + 1 .. Len(clusters') :
               /\ i + (k - n) <= i'
               /\ clusters'[k] = singleton(points[i + (k - n)][1], points[i + (k - n)][2])

\* C12: at every step of the clustering pass, for any min_distance_m, every
\* cluster's count is at least 1 and the counts add up to the number of
\* points consumed so far; on return they add up to len(points); and the
\* clusters stand in the order in which their first members appear in the
\* input.
C12_CountsAndCreationOrder ==
    []CountsConserved /\ [][CreationOrderStep]_vars

\* 52,-8 / 10,10 / 53,-8 with a 150 km radius: the third point joins the
\* first cluster, which stays ahead of the cluster opened by the second point
C12_Witness ==
    /\ pc = "cluster_done"
    /\ points = <<(<<52, -8>>), (<<10, 10>>), (<<53, -8>>)>>
    /\ min_distance_m = 150 * SC
    /\ Len(clusters) = 2
    /\ clusters[1][3] = 2 /\ clusters[2] = singleton(10, 10)
    /\ SumCounts(clusters) = 3

-----------------------------------------------------------------------------
(* render_map: inset placement (snapshot.py 278-300), in hundredths of the *)
(* figure                                                                  *)

FigOne == 10 * 10                      \* the figure fraction 1.0

\* the theme's defaults, DEFAULT_THEME["inset_size"] and ["inset_margin"]
default_inset_size == 30
default_inset_margin == 2

\* a clamp whose upper end forgets the margin
place_inset_no_margin(v_fig, inset_size, inset_margin) ==
    Min2(Max2(v_fig + inset_margin, inset_margin), FigOne - inset_size)

\* lines 297-298: one coordinate of the inset's lower-left corner
place_inset(v_fig, inset_size, inset_margin) ==
    Min2(Max2(v_fig + inset_margin, inset_margin), FigOne - inset_size - inset_margin)

\* Bbox of fig.add_axes([x0, y0, inset_size, inset_size])
Bbox(x0, y0, width, height) ==
    [x0 |-> x0, y0 |-> y0, x1 |-> x0 + width, y1 |-> y0 + height]

FigValues == {20 * k - 20 : k \in 0 .. MaxFigStep}
InsetSizes == {30 * k : k \in 0 .. MaxSizeStep}
InsetMargins == {default_inset_margin} \cup {10 * k : k \in 0 .. MaxMarginStep}

InitInset ==
    /\ pc = "inset_start"
    /\ marker \in FigValues \X FigValues
    /\ theme \in [inset_size : InsetSizes, inset_margin : InsetMargins]
    /\ inset_bbox = <<>>
    /\ IdleRegion /\ IdleCluster /\ IdleSide /\ IdleCsv /\ IdleMain

\* lines 294-300: clamp the corner and add the inset axes
PlaceInset ==
    /\ pc = "inset_start"
    /\ LET x0 == place_inset(marker[1], theme.inset_size, theme.inset_margin)
           y0 == place_inset(marker[2], theme.inset_size, theme.inset_margin)
       IN  inset_bbox' = Bbox(x0, y0, theme.inset_size, theme.inset_size)
    /\ pc' = "inset_placed"
    /\ UNCHANGED <<marker, theme, regionVars, clusterVars, sideVars, csvVars, mainVars>>

NextInset == PlaceInset

SpecInset == InitInset /\ [][NextInset]_vars

InClampRange(v, t) ==
    t.inset_margin <= v /\ v <= FigOne - t.inset_size - t.inset_margin

PanelInsideFigure(b) ==
    /\ 0 <= b.x0 /\ b.x1 <= FigOne /\ b.x0 <= b.x1
    /\ 0 <= b.y0 /\ b.y1 <= FigOne /\ b.y0 <= b.y1

\* C5 as stated: for every marker position and every inset_size and
\* inset_margin the theme supplies, (x0, y0) lies in
\* [margin, 1 - inset_size - margin] on each axis and the panel stays inside
\* [0, 1] on both axes.
C5_InsetInsideAnyTheme ==
    pc = "inset_placed" =>
        /\ InClampRange(inset_bbox.x0, theme)
        /\ InClampRange(inset_bbox.y0, theme)
        /\ PanelInsideFigure(inset_bbox)

WellFormedTheme(t) ==
    /\ t.inset_size >= 0
    /\ t.inset_margin >= 0
    /\ t.inset_size + 2 * t.inset_margin <= FigOne

\* C5 amended: for every marker position and every theme with
\* inset_size >= 0, inset_margin >= 0 and inset_size + 2 * inset_margin <= 1
\* (the default 0.30 / 0.02 among them), (x0, y0) lies in
\* [margin, 1 - inset_size - margin] on each axis and the panel stays inside
\* [0, 1]; for other themes the clamp range is empty or leaves the figure and
\* the corner is 1 - inset_size - margin or margin.
C5_InsetInsideWellFormedTheme ==
    pc = "inset_placed" =>
        /\ WellFormedTheme(theme) =>
              /\ InClampRange(inset_bbox.x0, theme)
              /\ InClampRange(inset_bbox.y0, theme)
              /\ PanelInsideFigure(inset_bbox)
        /\ inset_bbox.x0 \in {marker[1] + theme.inset_margin, theme.inset_margin,
                              FigOne - theme.inset_size - theme.inset_margin}

\* default theme, star at the right edge and under the bottom edge: the
\* corner is clamped to 0.68 and 0.02
C5_Witness ==
    /\ pc = "inset_placed"
    /\ theme.inset_size = default_inset_size
    /\ theme.inset_margin = default_inset_margin
    /\ marker = <<FigOne, 0 - 20>>
    /\ inset_bbox.x0 = 68 /\ inset_bbox.y0 = 2 /\ inset_bbox.x1 = 98

-----------------------------------------------------------------------------
(* render_map: side detection (snapshot.py 356-373), in thousandths of the *)
(* figure                                                                  *)

eps == 5

\* a classifier that names the side the inset is on
side_of_inset(b, rect_xmin, rect_xmax, rect_ymin, rect_ymax) ==
    IF b.y0 >= rect_ymax + eps THEN "above"
    ELSE IF b.y1 <= rect_ymin - eps THEN "below"
    ELSE IF b.x1 <= rect_xmin - eps THEN "right"
    ELSE IF b.x0 >= rect_xmax + eps THEN "left"
    ELSE "above"

\* lines 364-373: the if / elif chain that sets pos
side(b, rect_xmin, rect_xmax, rect_ymin, rect_ymax) ==
    IF b.y0 >= rect_ymax + eps THEN "below"
    ELSE IF b.y1 <= rect_ymin - eps THEN "above"
    ELSE IF b.x1 <= rect_xmin - eps THEN "right"
    ELSE IF b.x0 >= rect_xmax + eps THEN "left"
    ELSE "above"

\* lines 356-359: the rectangle's corners, as data_to_fig returns them, sorted
rect_xmin(c) == Min2(c.rx0, c.rx1)
rect_xmax(c) == Max2(c.rx0, c.rx1)
rect_ymin(c) == Min2(c.ry0, c.ry1)
rect_ymax(c) == Max2(c.ry0, c.ry1)

SideValues == {eps * k : k \in 0 .. MaxSideStep}
SideSizes == {eps * k : k \in 1 .. MaxInsetStep}

InitSide ==
    /\ pc = "side_start"
    /\ rect \in [rx0 : SideValues, ry0 : SideValues, rx1 : SideValues, ry1 : SideValues]
    /\ \E x0 \in SideValues, y0 \in SideValues, size \in SideSizes :
          inset_bbox = Bbox(x0, y0, size, size)
    /\ pos = NoValue
    /\ marker = <<>> /\ theme = <<>>
    /\ IdleRegion /\ IdleCluster /\ IdleCsv /\ IdleMain

\* lines 356-373
ClassifySide ==
    /\ pc = "side_start"
    /\ pos' = side(inset_bbox, rect_xmin(rect), rect_xmax(rect), rect_ymin(rect), rect_ymax(rect))
    /\ pc' = "side_done"
    /\ UNCHANGED <<rect, insetVars, regionVars, clusterVars, csvVars, mainVars>>

NextSide == ClassifySide

SpecSide == InitSide /\ [][NextSide]_vars

\* the panel's box lies entirely below / above the rectangle's box, with a
\* gap of more than eps (strictly) or of at least eps
InsetBelowRect(gap_strict) ==
    IF gap_strict THEN inset_bbox.y1 < rect_ymin(rect) - eps
    ELSE inset_bbox.y1 <= rect_ymin(rect) - eps

InsetAboveRect(gap_strict) ==
    IF gap_strict THEN inset_bbox.y0 > rect_ymax(rect) + eps
    ELSE inset_bbox.y0 >= rect_ymax(rect) + eps

NoSideCondition ==
    /\ ~(inset_bbox.y0 >= rect_ymax(rect) + eps)
    /\ ~(inset_bbox.y1 <= rect_ymin(rect) - eps)
    /\ ~(inset_bbox.x1 <= rect_xmin(rect) - eps)
    /\ ~(inset_bbox.x0 >= rect_xmax(rect) + eps)

\* C6 as stated: the classifier returns below whenever the inset's box lies
\* entirely below the rectangle's box by more than epsilon, above whenever it
\* lies entirely above by more than epsilon, and above when none of the four
\* conditions holds.
C6_SideNamesInsetPosition ==
    pc = "side_done" =>
        /\ InsetBelowRect(TRUE) => pos = "below"
        /\ InsetAboveRect(TRUE) => pos = "above"
        /\ NoSideCondition => pos = "above"

\* C6 amended: pos is the side of the rectangle on which the title is put,
\* opposite the inset: the classifier returns below whenever the inset's box
\* lies entirely above the rectangle's box by at least epsilon
\* (inset.y0 >= rect_ymax + eps), above whenever it lies entirely below by at
\* least epsilon (inset.y1 <= rect_ymin - eps), and above when none of the
\* four conditions holds.
C6_SideOppositeInset ==
    pc = "side_done" =>
        /\ InsetAboveRect(FALSE) => pos = "below"
        /\ InsetBelowRect(FALSE) => pos = "above"
        /\ NoSideCondition => pos = "above"

\* an inset clearly above the rectangle classified as below
C6_Witness ==
    /\ pc = "side_done"
    /\ inset_bbox.y0 > rect_ymax(rect) + eps
    /\ inset_bbox.x0 < rect_xmax(rect) /\ inset_bbox.x1 > rect_xmin(rect)
    /\ pos = "below"

-----------------------------------------------------------------------------
(* _auto_region_from_points (snapshot.py 114-131), in units of 0.0001      *)
(* degree                                                                  *)

Deg == 10 * 10 * 10 * 10               \* one degree

DEFAULT_WORLD_REGION == Region(0 - 11 * Deg, 0 - 5 * Deg, (101 * Deg) \div 2, (113 * Deg) \div 2)

RECURSIVE MinOf(_, _)
MinOf(ps, axis) ==
    IF Len(ps) = 1 THEN ps[1][axis] ELSE Min2(ps[1][axis], MinOf(Tail(ps), axis))

RECURSIVE MaxOf(_, _)
MaxOf(ps, axis) ==
    IF Len(ps) = 1 THEN ps[1][axis] ELSE Max2(ps[1][axis], MaxOf(Tail(ps), axis))

\* padding proportional to the span only
auto_region_unpadded(ps) ==
    IF ps = <<>> THEN normalized(DEFAULT_WORLD_REGION)
    ELSE
        LET lat0 == MinOf(ps, 1)
            lat1 == MaxOf(ps, 1)
            lon0 == MinOf(ps, 2)
            lon1 == MaxOf(ps, 2)
        IN  IF lon1 - lon0 > 180 * Deg
            THEN normalized(Region(0 - 180 * Deg, 180 * Deg,
                                   Max2(0 - 80 * Deg, lat0 - 5 * Deg),
                                   Min2(80 * Deg, lat1 + 5 * Deg)))
            ELSE
                LET lat_pad == ((lat1 - lat0) * 35) \div 100
                    lon_pad == ((lon1 - lon0) * 35) \div 100
                IN  normalized(Region(lon0 - lon_pad, lon1 + lon_pad,
                                      lat0 - lat_pad, lat1 + lat_pad))

\* padding applied inwards: the bounds move towards each other
auto_region_inward(ps) ==
    IF ps = <<>> THEN normalized(DEFAULT_WORLD_REGION)
    ELSE
        LET lat0 == MinOf(ps, 1)
            lat1 == MaxOf(ps, 1)
            lon0 == MinOf(ps, 2)
            lon1 == MaxOf(ps, 2)
        IN  IF lon1 - lon0 > 180 * Deg
            THEN normalized(Region(0 - 180 * Deg, 180 * Deg,
                                   Max2(0 - 80 * Deg, lat0 + 5 * Deg),
                                   Min2(80 * Deg, lat1 - 5 * Deg)))
            ELSE
                LET lat_span == Max2(Deg \div 100, lat1 - lat0)
                    lon_span == Max2(Deg \div 100, lon1 - lon0)
                    lat_pad == Max2(Deg \div 2, (lat_span * 35) \div 100)
                    lon_pad == Max2(Deg \div 2, (lon_span * 35) \div 100)
                IN  normalized(Region(lon0 + lon_pad, lon1 - lon_pad,
                                      lat0 + lat_pad, lat1 - lat_pad))

\* _auto_region_from_points
auto_region_from_points(ps) ==
    IF ps = <<>> THEN normalized(DEFAULT_WORLD_REGION)
    ELSE
        LET lat0 == MinOf(ps, 1)
            lat1 == MaxOf(ps, 1)
            lon0 == MinOf(ps, 2)
            lon1 == MaxOf(ps, 2)
        IN  IF lon1 - lon0 > 180 * Deg
            THEN normalized(Region(0 - 180 * Deg, 180 * Deg,
                                   Max2(0 - 80 * Deg, lat0 - 5 * Deg),
                                   Min2(80 * Deg, lat1 + 5 * Deg)))
            ELSE
                LET lat_span == Max2(Deg \div 100, lat1 - lat0)
                    lon_span == Max2(Deg \div 100, lon1 - lon0)
                    lat_pad == Max2(Deg \div 2, (lat_span * 35) \div 100)
                    lon_pad == Max2(Deg \div 2, (lon_span * 35) \div 100)
                IN  normalized(Region(lon0 - lon_pad, lon1 + lon_pad,
                                      lat0 - lat_pad, lat1 + lat_pad))

AutoLats == {0 - 88 * Deg, 0, 53 * Deg, 88 * Deg}
AutoLons == {0 - 170 * Deg, 0 - 8 * Deg, 0, 175 * Deg}

InitAuto ==
    /\ pc = "auto_start"
    /\ points \in SeqsUpTo(AutoLats \X AutoLons, MaxAutoPoints)
    /\ region = NoRegion
    /\ args = <<>> /\ aspect = NoValue
    /\ min_distance_m = 0 /\ clusters = <<>> /\ i = 0
    /\ IdleInset /\ IdleSide /\ IdleCsv /\ IdleMain

\* render_summary_map line 147
AutoRegion ==
    /\ pc = "auto_start"
    /\ region' = auto_region_from_points(points)
    /\ pc' = "auto_done"
    /\ UNCHANGED <<args, aspect, clusterVars, insetVars, sideVars, csvVars, mainVars>>

NextAuto == AutoRegion

SpecAuto == InitAuto /\ [][NextAuto]_vars

Coincident(ps) == ps # <<>> /\ \A k \in 1 .. Len(ps) : ps[k] = ps[1]

\* max(0.5 degrees, 35% of max(0.01, span))
PadFor(span) == Max2(Deg \div 2, (35 * Max2(Deg \div 100, span)) \div 100)

\* C7: for a single point or coincident points the derived region is
\* normalized, has strictly positive span on both axes, and each axis is
\* padded on both sides by max(0.5 degrees, 35% of max(0.01, span)).
C7_CoincidentPointsPadded ==
    (pc = "auto_done" /\ Coincident(points)) =>
        /\ region.minimum_longitude < region.maximum_longitude
        /\ region.minimum_latitude < region.maximum_latitude
        /\ region.minimum_longitude = points[1][2] - PadFor(0)
        /\ region.maximum_longitude = points[1][2] + PadFor(0)
        /\ region.minimum_latitude = points[1][1] - PadFor(0)
        /\ region.maximum_latitude = points[1][1] + PadFor(0)

\* the single point (53.0, -8.0): longitude [-8.5, -7.5], latitude [52.5, 53.5]
C7_Witness ==
    /\ pc = "auto_done"
    /\ points = <<(<<53 * Deg, 0 - 8 * Deg>>)>>
    /\ region = Region(0 - 85000, 0 - 75000, 525000, 535000)

\* the points' longitudes span more than 180 degrees (line 123)
WideSpan(ps) == ps # <<>> /\ MaxOf(ps, 2) - MinOf(ps, 2) > 180 * Deg

Clamp80(x) == Max2(0 - 80 * Deg, Min2(80 * Deg, x))

\* C11: for a point set whose longitude span exceeds 180 degrees the region
\* has longitude exactly [-180, 180] and latitude bounds equal to the least
\* and greatest latitude padded by 5 degrees and clamped, so that both bounds
\* lie within [-80, 80].
C11_WideSpanBand ==
    (pc = "auto_done" /\ WideSpan(points)) =>
        /\ region.minimum_longitude = 0 - 180 * Deg
        /\ region.maximum_longitude = 180 * Deg
        /\ region.minimum_latitude = Clamp80(MinOf(points, 1) - 5 * Deg)
        /\ region.maximum_latitude = Clamp80(MaxOf(points, 1) + 5 * Deg)
        /\ region.minimum_latitude >= 0 - 80 * Deg
        /\ region.maximum_latitude <= 80 * Deg

LonInside(reg, p) ==
    reg.minimum_longitude <= p[2] /\ p[2] <= reg.maximum_longitude

LatInside(reg, p) ==
    reg.minimum_latitude <= p[1] /\ p[1] <= reg.maximum_latitude

InBand80(p) == 0 - 80 * Deg <= p[1] /\ p[1] <= 80 * Deg

-----------------------------------------------------------------------------
(* _read_points_csv (snapshot.py 98-111).  A line is a sequence of         *)
(* one-character strings.                                                  *)

RECURSIVE lstrip(_)
lstrip(t) == IF t # <<>> /\ Head(t) = " " THEN lstrip(Tail(t)) ELSE t

RECURSIVE rstrip(_)
rstrip(t) ==
    IF t # <<>> /\ t[Len(t)] = " " THEN rstrip(SubSeq(t, 1, Len(t) - 1)) ELSE t

\* str.strip()
strip(t) == rstrip(lstrip(t))

\* str.startswith
startswith(t, ch) == t # <<>> /\ t[1] = ch

\* str.split(","): the fields between the commas, at least one
RECURSIVE split(_, _)
split(t, field) ==
    IF t = <<>> THEN <<field>>
    ELSE IF Head(t) = "," THEN <<field>> \o split(Tail(t), <<>>)
    ELSE split(Tail(t), Append(field, Head(t)))

Digits == {"0", "1", "2"}
DigitValue(ch) == IF ch = "0" THEN 0 ELSE IF ch = "1" THEN 1 ELSE 2

RECURSIVE AllDigits(_)
AllDigits(t) == t = <<>> \/ (Head(t) \in Digits /\ AllDigits(Tail(t)))

RECURSIVE DigitsValue(_, _)
DigitsValue(t, acc) ==
    IF t = <<>> THEN acc ELSE DigitsValue(Tail(t), 10 * acc + DigitValue(Head(t)))

\* float(text) succeeds: an optional sign and at least one digit (the texts of
\* the model hold no ".", "e" or "_")
float_ok(t) ==
    LET body == IF startswith(t, "-") THEN Tail(t) ELSE t
    IN  body # <<>> /\ AllDigits(body)

\* float(text), when it succeeds
float(t) ==
    IF startswith(t, "-") THEN 0 - DigitsValue(Tail(t), 0) ELSE DigitsValue(t, 0)

FileNotFoundError(path) == [type |-> "FileNotFoundError", cites |-> path]
ValueError(text) == [type |-> "ValueError", cites |-> text]

\* lines 104-110: the loop body for one raw line
read_line(raw) ==
    LET line == strip(raw)
        parts == [k \in 1 .. Len(split(line, <<>>)) |-> strip(split(line, <<>>)[k])]
    IN  IF line = <<>> \/ startswith(line, "#") THEN [kind |-> "skip"]
        ELSE IF Len(parts) # 2 THEN [kind |-> "raise", error |-> ValueError(raw)]
        ELSE IF ~float_ok(parts[1]) THEN [kind |-> "raise", error |-> ValueError(parts[1])]
        ELSE IF ~float_ok(parts[2]) THEN [kind |-> "raise", error |-> ValueError(parts[2])]
        ELSE [kind |-> "point", point |-> <<float(parts[1]), float(parts[2])>>]

PointsPath == <<"p", ".", "c", "s", "v">>

FileWith(lines) == [exists |-> TRUE, lines |-> lines]

Lines ==
    { <<>>,
      <<" ", " ">>,
      <<"#", "x">>,
      <<" ", "#", "1", ",", "2">>,
      <<"1", ",", "2">>,
      <<" ", "-", "2", " ", ",", " ", "1", "0", " ">>,
      <<"1">>,
      <<"1", ",", "2", ",", "1">>,
      <<"x", ",", "1">>,
      <<"1", ",">>,
      <<"1", " ", "2", ",", "1">>,
      <<"2", ",", "-">> }

InitCsv ==
    /\ pc = "csv_start"
    /\ file \in {NoFile} \cup {FileWith(ls) : ls \in SeqsUpTo(Lines, MaxLines)}
    /\ error = NoError
    /\ points = <<>> /\ i = 0
    /\ min_distance_m = 0 /\ clusters = <<>>
    /\ IdleRegion /\ IdleInset /\ IdleSide /\ IdleMain

\* lines 99-103
CsvOpen ==
    /\ pc = "csv_start"
    /\ IF ~file.exists
         THEN error' = FileNotFoundError(PointsPath) /\ pc' = "csv_raised"
         ELSE pc' = "csv_loop" /\ UNCHANGED error
    /\ UNCHANGED <<file, points, i, min_distance_m, clusters, regionVars, insetVars, sideVars, mainVars>>

\* lines 103-110: one raw line; an exception ends the call without a result
CsvLine ==
    /\ pc = "csv_loop"
    /\ i < Len(file.lines)
    /\ LET got == read_line(file.lines[i + 1])
       IN  IF got.kind = "skip" THEN UNCHANGED <<error, points, pc>>
           ELSE IF got.kind = "raise"
                THEN error' = got.error /\ pc' = "csv_raised" /\ UNCHANGED points
           ELSE points' = Append(points, got.point) /\ UNCHANGED <<error, pc>>
    /\ i' = i + 1
    /\ UNCHANGED <<file, min_distance_m, clusters, regionVars, insetVars, sideVars, mainVars>>

\* line 111
CsvReturn ==
    /\ pc = "csv_loop"
    /\ i = Len(file.lines)
    /\ pc' = "csv_done"
    /\ UNCHANGED <<clusterVars, csvVars, regionVars, insetVars, sideVars, mainVars>>

NextCsv == CsvOpen \/ CsvLine \/ CsvReturn

SpecCsv == InitCsv /\ [][NextCsv]_vars

-----------------------------------------------------------------------------
(* Claims about _read_points_csv (SpecCsv)                                 *)

Blank(raw) == \A k \in 1 .. Len(raw) : raw[k] = " "

\* the first character that is not a space is "#"
Comment(raw) ==
    \E k \in 1 .. Len(raw) : raw[k] = "#" /\ \A j \in 1 .. k - 1 : raw[j] = " "

Ignored(raw) == Blank(raw) \/ Comment(raw)

\* number of commas in a line
Commas(raw) == Cardinality({k \in 1 .. Len(raw) : raw[k] = ","})

\* exactly two comma-separated numeric fields
TwoNumbers(raw) ==
    /\ Commas(raw) = 1
    /\ LET c == CHOOSE k \in 1 .. Len(raw) : raw[k] = ","
       IN  /\ float_ok(strip(SubSeq(raw, 1, c - 1)))
           /\ float_ok(strip(SubSeq(raw, c + 1, Len(raw))))

PairOf(raw) ==
    LET c == CHOOSE k \in 1 .. Len(raw) : raw[k] = ","
    IN  <<float(strip(SubSeq(raw, 1, c - 1))), float(strip(SubSeq(raw, c + 1, Len(raw))))>>

Malformed(raw) == ~Ignored(raw) /\ ~TwoNumbers(raw)

RECURSIVE PairsOf(_)
PairsOf(ls) ==
    IF ls = <<>> THEN <<>>
    ELSE IF Ignored(Head(ls)) THEN PairsOf(Tail(ls))
    ELSE <<PairOf(Head(ls))>> \o PairsOf(Tail(ls))

FirstMalformed(ls) ==
    ls[CHOOSE k \in 1 .. Len(ls) :
          Malformed(ls[k]) /\ \A j \in 1 .. k - 1 : ~Malformed(ls[j])]

AnyMalformed(ls) == \E k \in 1 .. Len(ls) : Malformed(ls[k])

\* the parts of C8 other than the text of the value error: blank and "#"
\* lines are skipped, the remaining lines come back as (lat, lon) pairs in
\* file order, a malformed line raises a value error and nothing is returned,
\* a missing file raises a file-not-found error naming the path.
CsvReadsOrRaises ==
    /\ pc = "csv_done" =>
          file.exists /\ ~AnyMalformed(file.lines) /\ points = PairsOf(file.lines)
    /\ pc = "csv_raised" =>
          IF file.exists
          THEN AnyMalformed(file.lines) /\ error.type = "ValueError"
               /\ Malformed(file.lines[i])
          ELSE error = FileNotFoundError(PointsPath)

\* C8: blank lines and lines starting with "#" are skipped, the remaining
\* lines are returned as (lat, lon) pairs in file order, and a remaining line
\* that is not exactly two comma-separated numeric fields fails with a value
\* error whose message cites the offending line; a missing file fails with a
\* file-not-found error naming the path; no points are returned when any
\* line is malformed.
C8_MalformedLineCited ==
    /\ CsvReadsOrRaises
    /\ (pc = "csv_raised" /\ file.exists) =>
          error = ValueError(FirstMalformed(file.lines))

-----------------------------------------------------------------------------
(* main, render_summary_map and render_map as a sequence of steps          *)
(* (snapshot.py 497-536, 145-182, 272-439).  Each step is a call that      *)
(* either returns or raises.                                               *)

\* savefig moved in front of the optional decorations
PipelineSaveEarly(a) ==
    <<"parse_args", "load_theme">> \o
    (IF a.summary
     THEN <<"read_points_csv", "auto_region", "figure", "base_map",
            "cluster_points", "plot_markers", "savefig">>
          \o (IF a.caption THEN <<"caption">> ELSE <<>>)
     ELSE <<"parse_world_region", "parse_zoom_region", "parse_star",
            "figure", "base_map", "place_inset", "inset_map", "inset_title",
            "savefig">>
          \o (IF a.clock_svg THEN <<"badge">> ELSE <<>>)
          \o (IF a.caption THEN <<"caption">> ELSE <<>>)
          \o <<"rectangle", "side_detection", "title", "spines", "connectors">>)
    \o (IF a.show THEN <<"show">> ELSE <<>>)

\* the calls main makes, in program order, for a parsed command line
Pipeline(a) ==
    <<"parse_args", "load_theme">> \o                          \* 498, 500
    (IF a.summary                                               \* 503
     THEN <<"read_points_csv",                                  \* 504
            "auto_region", "figure", "base_map",                \* 147-158
            "cluster_points", "plot_markers">>                  \* 160-164
          \o (IF a.caption THEN <<"caption">> ELSE <<>>)        \* 166-178
          \o <<"savefig">>                                      \* 180
     ELSE <<"parse_world_region", "parse_zoom_region", "parse_star",  \* 517-519
            "figure", "base_map",                               \* 281-291
            "place_inset", "inset_map", "inset_title">>         \* 294-321
          \o (IF a.clock_svg THEN <<"badge">> ELSE <<>>)        \* 323-324
          \o (IF a.caption THEN <<"caption">> ELSE <<>>)        \* 326-338
          \o <<"rectangle", "side_detection", "title",          \* 340-404
               "spines", "connectors">>                         \* 406-435
          \o <<"savefig">>)                                     \* 437
    \o (IF a.show THEN <<"show">> ELSE <<>>)                    \* 181-182, 438-439

Argvs == [summary : BOOLEAN, caption : BOOLEAN, clock_svg : BOOLEAN, show : BOOLEAN]

AllSteps == UNION {{Pipeline(a)[k] : k \in 1 .. Len(Pipeline(a))} : a \in Argvs}

\* exit status of an uncaught exception; argparse exits with status 2
StatusOfRaise(s) == IF s = "parse_args" THEN 2 ELSE 1

InitMain ==
    /\ pc = "main_running"
    /\ argv \in Argvs
    /\ step = 1
    /\ written = 0
    /\ runs = [s \in AllSteps |-> 0]
    /\ raised = ""
    /\ exit_code = NotExited
    /\ IdleRegion /\ IdleCluster /\ IdleInset /\ IdleSide /\ IdleCsv

Started(s) == [runs EXCEPT ![s] = @ + 1]

\* a call other than savefig returns
StepSucceeds ==
    /\ pc = "main_running"
    /\ step <= Len(Pipeline(argv))
    /\ Pipeline(argv)[step] # "savefig"
    /\ runs' = Started(Pipeline(argv)[step])
    /\ step' = step + 1
    /\ UNCHANGED <<pc, argv, written, raised, exit_code,
                   regionVars, clusterVars, insetVars, sideVars, csvVars>>

\* plt.savefig returns: the output file exists
SaveFigure ==
    /\ pc = "main_running"
    /\ step <= Len(Pipeline(argv))
    /\ Pipeline(argv)[step] = "savefig"
    /\ runs' = Started("savefig")
    /\ written' = written + 1
    /\ step' = step + 1
    /\ UNCHANGED <<pc, argv, raised, exit_code,
                   regionVars, clusterVars, insetVars, sideVars, csvVars>>

\* a call raises: nothing in main catches it
StepRaises ==
    /\ pc = "main_running"
    /\ step <= Len(Pipeline(argv))
    /\ runs' = Started(Pipeline(argv)[step])
    /\ raised' = Pipeline(argv)[step]
    /\ exit_code' = StatusOfRaise(Pipeline(argv)[step])
    /\ pc' = "main_raised"
    /\ UNCHANGED <<argv, step, written,
                   regionVars, clusterVars, insetVars, sideVars, csvVars>>

\* return 0, lines 515 and 536
ReturnZero ==
    /\ pc = "main_running"
    /\ step = Len(Pipeline(argv)) + 1
    /\ exit_code' = 0
    /\ pc' = "main_returned"
    /\ UNCHANGED <<argv, step, written, runs, raised,
                   regionVars, clusterVars, insetVars, sideVars, csvVars>>

NextMain == StepSucceeds \/ SaveFigure \/ StepRaises \/ ReturnZero

SpecMain == InitMain /\ [][NextMain]_vars

Spec == SpecMain

-----------------------------------------------------------------------------
(* Claims about main (SpecMain)                                            *)

\* theme loading, input parsing and every drawing step of the chosen mode
StepsBeforeWrite(a) ==
    {"parse_args", "load_theme", "figure", "base_map"}
    \cup (IF a.summary
          THEN {"read_points_csv", "auto_region", "cluster_points", "plot_markers"}
          ELSE {"parse_world_region", "parse_zoom_region", "parse_star",
                "place_inset", "inset_map", "inset_title", "rectangle",
                "side_detection", "title", "spines", "connectors"})
    \cup (IF a.caption THEN {"caption"} ELSE {})
    \cup (IF a.clock_svg /\ ~a.summary THEN {"badge"} ELSE {})

AllSucceeded(S) == \A s \in S : runs[s] = 1 /\ raised # s

NoRetry == \A s \in AllSteps : runs[s] <= 1

\* C9 as stated: the output file is written at most once and only as the
\* final step, after theme loading, input parsing and every drawing step
\* (the optional badge included) have succeeded; if any step fails, no
\* output file is written, no step is retried and main does not return 0.
C9_WriteIsFinalStep ==
    /\ written <= 1
    /\ NoRetry
    /\ written = 1 =>
          /\ AllSucceeded(StepsBeforeWrite(argv))
          /\ step = Len(Pipeline(argv)) + 1
    /\ pc = "main_raised" => written = 0 /\ exit_code # 0
    /\ exit_code = 0 => pc = "main_returned" /\ raised = ""

\* C9 amended: the output file is written at most once, after theme loading,
\* input parsing and every drawing step (the optional badge included) have
\* succeeded, and is followed only by the interactive display plt.show()
\* unless --no-show is given; if a step up to and including the write
\* fails, no output file is written; if the display fails the file stays
\* written; in every failure no step is retried and main does not return 0.
C9_WriteAfterAllDrawing ==
    /\ written <= 1
    /\ NoRetry
    /\ written = 1 =>
          /\ AllSucceeded(StepsBeforeWrite(argv))
          /\ \A k \in step .. Len(Pipeline(argv)) : Pipeline(argv)[k] = "show"
    /\ pc = "main_raised" =>
          /\ exit_code # 0
          /\ written = (IF raised = "show" THEN 1 ELSE 0)
    /\ exit_code = 0 => pc = "main_returned" /\ raised = "" /\ written = 1

\* detail mode with a badge and a caption: the badge step raises after the
\* inset was drawn, nothing is written and the exit status is 1
C9_Witness ==
    /\ pc = "main_raised"
    /\ ~argv.summary /\ argv.clock_svg /\ argv.caption
    /\ raised = "badge"
    /\ runs["inset_title"] = 1 /\ runs["caption"] = 0 /\ runs["savefig"] = 0
    /\ written = 0
    /\ exit_code = 1

====
